---- MODULE Spec2Model ----
(***************************************************************************)
(* Form client of the NGO website (js/main.js): the three submit handlers, *)
(* the alert widget and the helpers they use, as a state machine.          *)
(*                                                                         *)
(* A JavaScript string is a sequence of chunks.  Every character the code  *)
(* or the platform looks at ("@", ".", white space, digits, sign, "<",     *)
(* ">", "/", "&", ";", "?", "=") is a chunk of its own; a run of other     *)
(* characters may be kept as one chunk.  A JavaScript value is a record    *)
(* with a type tag, so that null, strings, booleans and numbers stay       *)
(* distinct.                                                               *)
(***************************************************************************)
EXTENDS Integers, Sequences, FiniteSets, TLC

(***************************************************************************)
(* JavaScript values                                                       *)
(***************************************************************************)
Null == [type |-> "null"]
Undefined == [type |-> "undefined"]
Str(s) == [type |-> "string", chars |-> s]
Bool(b) == [type |-> "boolean", val |-> b]
Num(n) == [type |-> "number", nan |-> FALSE, val |-> n]
NaN == [type |-> "number", nan |-> TRUE, val |-> 0]

\* ToBoolean: null, undefined, "", false, 0 and NaN are falsy
Truthy(v) ==
    CASE v.type = "null" -> FALSE
      [] v.type = "undefined" -> FALSE
      [] v.type = "string" -> v.chars # <<>>
      [] v.type = "boolean" -> v.val
      [] v.type = "number" -> ~v.nan /\ v.val # 0

\* white space as matched by \s and as trimmed by StringToNumber
WhiteSpace == {" ", "\t", "\n"}

Digits == {"0", "1", "2", "3", "4", "5", "6", "7", "8", "9"}

DigitVal(c) ==
    CASE c = "0" -> 0 [] c = "1" -> 1 [] c = "2" -> 2 [] c = "3" -> 3
      [] c = "4" -> 4 [] c = "5" -> 5 [] c = "6" -> 6 [] c = "7" -> 7
      [] c = "8" -> 8 [] c = "9" -> 9

RECURSIVE TrimLeft(_)
TrimLeft(s) ==
    IF s # <<>> /\ Head(s) \in WhiteSpace THEN TrimLeft(Tail(s)) ELSE s

RECURSIVE TrimRight(_)
TrimRight(s) ==
    IF s # <<>> /\ s[Len(s)] \in WhiteSpace
    THEN TrimRight(SubSeq(s, 1, Len(s) - 1))
    ELSE s

RECURSIVE DigitsValue(_, _)
DigitsValue(s, acc) ==
    IF s = <<>> THEN acc ELSE DigitsValue(Tail(s), 10 * acc + DigitVal(Head(s)))

AllDigits(s) == s # <<>> /\ \A i \in 1..Len(s) : s[i] \in Digits

\* StringToNumber on strings of white space, a sign and decimal digits:
\* white space is trimmed, the empty string is 0, anything unparsable is NaN
StringToNumber(s) ==
    LET t == TrimRight(TrimLeft(s))
    IN  IF t = <<>> THEN Num(0)
        ELSE IF Head(t) = "-" /\ AllDigits(Tail(t)) THEN Num(0 - DigitsValue(Tail(t), 0))
        ELSE IF Head(t) = "+" /\ AllDigits(Tail(t)) THEN Num(DigitsValue(Tail(t), 0))
        ELSE IF AllDigits(t) THEN Num(DigitsValue(t, 0))
        ELSE NaN

ToNumber(v) ==
    CASE v.type = "null" -> Num(0)
      [] v.type = "undefined" -> NaN
      [] v.type = "string" -> StringToNumber(v.chars)
      [] v.type = "boolean" -> Num(IF v.val THEN 1 ELSE 0)
      [] v.type = "number" -> v

\* x <= y of a value and a number: false as soon as one side is NaN
LessOrEqual(x, y) ==
    LET a == ToNumber(x)
        b == ToNumber(y)
    IN  ~a.nan /\ ~b.nan /\ a.val <= b.val

\* x > y as a number comparison, false as soon as one side is NaN
GreaterThan(x, y) ==
    LET a == ToNumber(x)
        b == ToNumber(y)
    IN  ~a.nan /\ ~b.nan /\ a.val > b.val

JSToString(v) ==
    CASE v.type = "null" -> <<"n", "u", "l", "l">>
      [] v.type = "undefined" -> <<"undefined">>
      [] v.type = "string" -> v.chars
      [] v.type = "boolean" -> IF v.val THEN <<"true">> ELSE <<"false">>

(***************************************************************************)
(* isValidEmail: /^[^\s@]+@[^\s@]+\.[^\s@]+$/ run as an automaton.         *)
(* States: 0 start, 1 in the local part, 2 after "@", 3 in the domain      *)
(* before the dot, 4 after the dot, 5 in the last label (accepting).       *)
(***************************************************************************)
NotSpaceAt(c) == c \notin WhiteSpace /\ c # "@"

\* the pattern without the dot: /^[^\s@]+@[^\s@]+$/
RegexStep_NoDot(q, c) ==
    CASE q = 0 -> IF NotSpaceAt(c) THEN {1} ELSE {}
      [] q = 1 -> (IF NotSpaceAt(c) THEN {1} ELSE {}) \cup (IF c = "@" THEN {2} ELSE {})
      [] q = 2 -> IF NotSpaceAt(c) THEN {5} ELSE {}
      [] q = 3 -> {}
      [] q = 4 -> {}
      [] q = 5 -> IF NotSpaceAt(c) THEN {5} ELSE {}

RegexStep(q, c) ==
    CASE q = 0 -> IF NotSpaceAt(c) THEN {1} ELSE {}
      [] q = 1 -> (IF NotSpaceAt(c) THEN {1} ELSE {}) \cup (IF c = "@" THEN {2} ELSE {})
      [] q = 2 -> IF NotSpaceAt(c) THEN {3} ELSE {}
      [] q = 3 -> (IF NotSpaceAt(c) THEN {3} ELSE {}) \cup (IF c = "." THEN {4} ELSE {})
      [] q = 4 -> IF NotSpaceAt(c) THEN {5} ELSE {}
      [] q = 5 -> IF NotSpaceAt(c) THEN {5} ELSE {}

RECURSIVE RegexRun(_, _)
RegexRun(S, s) ==
    IF s = <<>> THEN S
    ELSE RegexRun(UNION {RegexStep(q, Head(s)) : q \in S}, Tail(s))

emailRegexTest(s) == 5 \in RegexRun({0}, s)

isValidEmail(email) == emailRegexTest(JSToString(email))

(***************************************************************************)
(* The content of a button: a sequence of DOM nodes, text nodes and        *)
(* elements.  innerHTML reads it as markup (text escaped) and writes it by *)
(* parsing markup; textContent writes one text node holding the string as  *)
(* it is.                                                                  *)
(***************************************************************************)
Text(s) == [kind |-> "text", data |-> s]
Elem(tag, attr, kids) == [kind |-> "elem", tag |-> tag, attr |-> attr, children |-> kids]

\* attribute chunks that may follow a tag name
AttrChunks == {" class=\"loading-spinner\"", " class=\"icon\""}

EscapeChar(c) ==
    CASE c = "&" -> <<"&", "amp", ";">>
      [] c = "<" -> <<"&", "lt", ";">>
      [] c = ">" -> <<"&", "gt", ";">>
      [] OTHER -> <<c>>

RECURSIVE EscapeText(_)
EscapeText(s) ==
    IF s = <<>> THEN <<>> ELSE EscapeChar(Head(s)) \o EscapeText(Tail(s))

\* the innerHTML getter: the HTML fragment serialisation of the children
RECURSIVE SerializeNodes(_)
SerializeNodes(nodes) ==
    IF nodes = <<>> THEN <<>>
    ELSE LET n == Head(nodes)
             here == IF n.kind = "text"
                     THEN EscapeText(n.data)
                     ELSE <<"<", n.tag>>
                          \o (IF n.attr = "" THEN <<>> ELSE <<n.attr>>)
                          \o <<">">>
                          \o SerializeNodes(n.children)
                          \o <<"<", "/", n.tag, ">">>
         IN  here \o SerializeNodes(Tail(nodes))

MarkupSpecial == {"<", ">", "/", "&", ";"}

IsEndTag(s) ==
    Len(s) >= 4 /\ s[1] = "<" /\ s[2] = "/" /\ s[3] \notin MarkupSpecial /\ s[4] = ">"

\* the number of chunks of the start tag at the head of s, 0 when there is none
StartTagLen(s) ==
    IF Len(s) >= 3 /\ s[1] = "<" /\ s[2] \notin MarkupSpecial /\ s[3] = ">" THEN 3
    ELSE IF Len(s) >= 4 /\ s[1] = "<" /\ s[2] \notin MarkupSpecial
            /\ s[3] \in AttrChunks /\ s[4] = ">" THEN 4
    ELSE 0

\* the number of chunks of the character reference at the head of s, 0 when none
CharRefLen(s) ==
    IF Len(s) >= 3 /\ s[1] = "&" /\ s[2] \in {"amp", "lt", "gt"} /\ s[3] = ";" THEN 3 ELSE 0

CharRefValue(name) ==
    CASE name = "amp" -> "&" [] name = "lt" -> "<" [] name = "gt" -> ">"

\* a character put in front of a node list: adjacent text is one text node
ConsText(c, nodes) ==
    IF nodes # <<>> /\ Head(nodes).kind = "text"
    THEN <<Text(<<c>> \o Head(nodes).data)>> \o Tail(nodes)
    ELSE <<Text(<<c>>)>> \o nodes

Drop(s, n) == SubSeq(s, n + 1, Len(s))

\* fragment parsing: the nodes up to the end tag that closes the open element
\* (or the end of the input) and the input left after it
RECURSIVE ParseFrom(_)
ParseFrom(s) ==
    IF s = <<>> THEN [nodes |-> <<>>, rest |-> <<>>]
    ELSE IF IsEndTag(s) THEN [nodes |-> <<>>, rest |-> Drop(s, 4)]
    ELSE IF StartTagLen(s) > 0 THEN
        LET k == StartTagLen(s)
            inner == ParseFrom(Drop(s, k))
            after == ParseFrom(inner.rest)
        IN  [nodes |-> <<Elem(s[2], IF k = 4 THEN s[3] ELSE "", inner.nodes)>> \o after.nodes,
             rest |-> after.rest]
    ELSE IF CharRefLen(s) > 0 THEN
        LET after == ParseFrom(Drop(s, 3))
        IN  [nodes |-> ConsText(CharRefValue(s[2]), after.nodes), rest |-> after.rest]
    ELSE
        LET after == ParseFrom(Tail(s))
        IN  [nodes |-> ConsText(Head(s), after.nodes), rest |-> after.rest]

\* element.innerHTML (getter)
innerHTML(el) == SerializeNodes(el.children)

\* element.innerHTML = markup
SetInnerHTML(el, markup) == [el EXCEPT !.children = ParseFrom(markup).nodes]

\* element.textContent = text
SetTextContent(el, text) ==
    [el EXCEPT !.children = IF text = <<>> THEN <<>> ELSE <<Text(text)>>]

\* the disabled flag never set
SetDisabled_Ignored(el, b) == el

SetDisabled(el, b) == [el EXCEPT !.disabled = b]

\* the markup the handlers put into the button while the request runs
LoadingMarkup(label) ==
    <<"<", "span", " class=\"loading-spinner\"", ">", "<", "/", "span", ">", label>>

LoadingLabel(f) ==
    CASE f = "contact" -> "Sending..."
      [] f = "donate" -> "Processing..."
      [] f = "newsletter" -> "Subscribing..."

(***************************************************************************)
(* The page                                                                *)
(***************************************************************************)
Forms == {"contact", "donate", "newsletter"}

\* the most auto-remove timers of alerts that may be pending at once
MaxTimers == 2

\* the longest markup of a submit button from which a submission is followed
MaxMarkupLen == 9

VARIABLES
    fields,         \* fields[f]: the current values of the controls of form f
    button,         \* button[f]: the submit button of form f
    pc,             \* pc[f]: where the running invocation of f's handler waits
    originalText,   \* originalText[f]: the handler's local of that name
    request,        \* request[f]: the fetch of form f that has not settled
    response,       \* response[f]: the response whose body response.json() is reading
    alerts,         \* the .alert elements of document.body, in document order
    alertTimers,    \* the pending auto-remove timers, in the order they fire
    redirect,       \* the pending redirect timer of handleDonationForm
    location,       \* window.location.href
    forms           \* the forms the page holds (getElementById finds them)

\* the state of the page
pageVars == <<fields, button, pc, originalText, request, response,
              alerts, alertTimers, redirect, location, forms>>

Empty == Str(<<>>)
One == Str(<<"1">>)
Custom == Str(<<"custom">>)

GoodEmail == Str(<<"a", "@", "a", ".", "a">>)
NoDotEmail == Str(<<"a", "@", "a">>)
SpaceEmail == Str(<<"a", " ", "@", "a", ".", "a">>)

\* the values of the controls after form.reset(): text inputs empty, no
\* radio button chosen, no check box ticked
DefaultFields(f) ==
    CASE f = "contact" ->
            [name |-> Empty, email |-> Empty, phone |-> Empty, subject |-> Empty,
             message |-> Empty, newsletter |-> Null]
      [] f = "donate" ->
            [amount |-> Null, customAmount |-> Empty, donationType |-> Str(<<"one-time">>),
             paymentMethod |-> Null, donorName |-> Empty, donorEmail |-> Empty,
             donorPhone |-> Empty, projectSelection |-> Empty, donorMessage |-> Empty,
             anonymous |-> Null, newsletter |-> Null]
      [] f = "newsletter" -> [email |-> Empty]

Jane == Str(<<"Jane">>)
Hi == Str(<<"hi">>)

ContactFilled == [DefaultFields("contact") EXCEPT !.name = Jane, !.email = GoodEmail, !.message = Hi]

\* what a user may have typed into the contact form
ContactInputs ==
    { ContactFilled,
      [ContactFilled EXCEPT !.message = Empty, !.newsletter = One],
      [ContactFilled EXCEPT !.email = NoDotEmail],
      [ContactFilled EXCEPT !.name = Null, !.email = SpaceEmail] }

DonateFilled ==
    [DefaultFields("donate") EXCEPT !.amount = Str(<<"5", "0">>), !.paymentMethod = Str(<<"bitcoin">>),
                                    !.donorName = Jane, !.donorEmail = GoodEmail]

DonateInputs ==
    { DonateFilled,
      [DonateFilled EXCEPT !.amount = Custom, !.customAmount = Str(<<"2", "5">>), !.anonymous = One],
      [DonateFilled EXCEPT !.amount = Custom, !.customAmount = Str(<<"0">>)],
      [DonateFilled EXCEPT !.amount = Custom, !.customAmount = Str(<<"a">>)],
      [DonateFilled EXCEPT !.paymentMethod = Null],
      [DonateFilled EXCEPT !.donorName = Empty],
      [DonateFilled EXCEPT !.donorEmail = NoDotEmail],
      [DonateFilled EXCEPT !.amount = Str(<<"0">>), !.donorEmail = Empty] }

NewsletterInputs == {[email |-> GoodEmail], [email |-> NoDotEmail]}

\* the pages of the site: each holds some of the three forms
\* (the contact page holds the contact form, the donate page the donation
\* form, and the newsletter form is on both)
Pages == {{"contact", "newsletter"}, {"donate", "newsletter"}}

\* what a user may type into form f
FormInputs(f) ==
    CASE f = "contact" -> ContactInputs
      [] f = "donate" -> DonateInputs
      [] f = "newsletter" -> NewsletterInputs

\* the content a page may give a submit button: plain text, or an icon and text
ButtonContents ==
    { <<>>,
      <<Text(<<"Send">>)>>,
      <<Elem("i", " class=\"icon\"", <<>>), Text(<<"Send">>)>> }

(***************************************************************************)
(* Requests, responses, alerts, timers                                     *)
(***************************************************************************)
ThisPage == <<"page.html">>
Loaded == location = ThisPage

NoRequest == [url |-> "none"]
NoResponse == [kind |-> "none"]
Unparseable == [kind |-> "unparseable"]
Json(payload) == [kind |-> "json", payload |-> payload]

\* the messages of the server, one per endpoint and outcome
SuccessMessage(f) == Str(<<f, ": thank you">>)
FailureMessage(f) == Str(<<f, ": could not process">>)

\* what the body of a response may parse to
Payloads(f) ==
    IF f = "donate"
    THEN { [success |-> Bool(TRUE), message |-> SuccessMessage(f),
            amount |-> Str(<<"5", "0">>), paymentMethod |-> Str(<<"bitcoin">>)],
           [success |-> Bool(TRUE), message |-> SuccessMessage(f),
            amount |-> Str(<<"2", "5">>), paymentMethod |-> Str(<<"ethereum">>)],
           [success |-> Bool(FALSE), message |-> FailureMessage(f),
            amount |-> Undefined, paymentMethod |-> Undefined] }
    ELSE { [success |-> Bool(TRUE), message |-> SuccessMessage(f)],
           [success |-> Bool(FALSE), message |-> FailureMessage(f)] }

Statuses == {200, 500}

Responses(f) ==
    { [status |-> s, body |-> b] :
          s \in Statuses, b \in {Json(p) : p \in Payloads(f)} \cup {Unparseable} }

RequiredMessage == Str(<<"Please fill in all required fields.">>)
EmailMessage == Str(<<"Please enter a valid email address.">>)
AmountMessage == Str(<<"Please enter a valid donation amount.">>)
MethodMessage == Str(<<"Please select a payment method.">>)
NameEmailMessage == Str(<<"Please fill in your name and email address.">>)
NetworkMessage == Str(<<"Network error. Please check your connection and try again.">>)

AlertIds == {a.id : a \in {alerts[i] : i \in 1..Len(alerts)}}
TimerIds == {alertTimers[i] : i \in 1..Len(alertTimers)}

\* a new element is none of the elements still held by the document or a timer
NewAlertId == CHOOSE i \in 0..(Len(alerts) + Len(alertTimers)) :
                  /\ i \notin AlertIds \cup TimerIds
                  /\ \A j \in 0..(i - 1) : j \in AlertIds \cup TimerIds

\* showAlert without the removal of the alerts there are
showAlert_KeepsExisting(message, type) ==
    /\ Len(alertTimers) < MaxTimers
    /\ alerts' = Append(alerts, [id |-> NewAlertId, type |-> type, message |-> JSToString(message)])
    /\ alertTimers' = Append(alertTimers, NewAlertId)

\* showAlert(message, type): every .alert is removed, a new one appended and
\* its auto-remove timer started
showAlert(message, type) ==
    /\ Len(alertTimers) < MaxTimers
    /\ alerts' = <<[id |-> NewAlertId, type |-> type, message |-> JSToString(message)]>>
    /\ alertTimers' = Append(alertTimers, NewAlertId)

NoRedirect == [pending |-> FALSE, url |-> <<>>, early |-> 0]

\* the delays of the two setTimeout calls, in milliseconds
AlertDelay == 5000
RedirectDelay == 2000

\* the two values in each other's place
ThankYouUrl_Swapped(result) ==
    <<"thank-you.html", "?", "amount", "=">> \o JSToString(result.paymentMethod)
        \o <<"&", "method", "=">> \o JSToString(result.amount)

ThankYouUrl(result) ==
    <<"thank-you.html", "?", "amount", "=">> \o JSToString(result.amount)
        \o <<"&", "method", "=">> \o JSToString(result.paymentMethod)

(***************************************************************************)
(* The user                                                                *)
(***************************************************************************)
\* the user fills in form f
Fill(f, d) ==
    /\ Loaded
    /\ f \in forms
    /\ fields[f] # d
    /\ fields' = [fields EXCEPT ![f] = d]
    /\ UNCHANGED <<button, pc, originalText, request, response,
                   alerts, alertTimers, redirect, location, forms>>

\* the user clicks the close button of an alert
AlertClose(i) ==
    /\ Loaded
    /\ i \in 1..Len(alerts)
    /\ alerts' = SubSeq(alerts, 1, i - 1) \o SubSeq(alerts, i + 1, Len(alerts))
    /\ UNCHANGED <<fields, button, pc, originalText, request, response,
                   alertTimers, redirect, location, forms>>

\* the handlers that wait for a promise, each of which will show an alert
Waiting == {g \in Forms : pc[g] # "idle"}

\* a submit event reaches a form through its enabled submit button only.
\* The page is followed while the alert of this submit, and of every handler
\* that waits, can start its timer, and while the button's markup is short
CanSubmit(f) ==
    /\ Loaded
    /\ f \in forms
    /\ ~button[f].disabled
    /\ Len(alertTimers) + Cardinality(Waiting) < MaxTimers
    /\ Len(innerHTML(button[f])) <= MaxMarkupLen

(***************************************************************************)
(* handleContactForm                                                       *)
(***************************************************************************)
ContactData ==
    LET form == fields["contact"]
    IN  [name |-> form.name, email |-> form.email, phone |-> form.phone,
         subject |-> form.subject, message |-> form.message,
         newsletter |-> Bool(form.newsletter = One)]

\* the handler up to its first await
\* handleContactForm without the line that disables the button
handleContactForm_NeverDisables ==
    LET f == "contact"
        data == ContactData
    IN  /\ CanSubmit(f)
        /\ IF ~Truthy(data.name) \/ ~Truthy(data.email) \/ ~Truthy(data.message)
           THEN /\ showAlert(RequiredMessage, "error")
                /\ UNCHANGED <<button, pc, originalText, request>>
           ELSE IF ~isValidEmail(data.email)
           THEN /\ showAlert(EmailMessage, "error")
                /\ UNCHANGED <<button, pc, originalText, request>>
           ELSE /\ originalText' = [originalText EXCEPT ![f] = innerHTML(button[f])]
                /\ button' = [button EXCEPT ![f] =
                        SetInnerHTML(@, LoadingMarkup(LoadingLabel(f)))]
                /\ request' = [request EXCEPT ![f] = [url |-> "/api/contact", body |-> data]]
                /\ pc' = [pc EXCEPT ![f] = "fetch"]
                /\ UNCHANGED <<alerts, alertTimers>>
        /\ UNCHANGED <<fields, response, redirect, location, forms>>

handleContactForm ==
    LET f == "contact"
        data == ContactData
    IN  /\ CanSubmit(f)
        /\ IF ~Truthy(data.name) \/ ~Truthy(data.email) \/ ~Truthy(data.message)
           THEN /\ showAlert(RequiredMessage, "error")
                /\ UNCHANGED <<button, pc, originalText, request>>
           ELSE IF ~isValidEmail(data.email)
           THEN /\ showAlert(EmailMessage, "error")
                /\ UNCHANGED <<button, pc, originalText, request>>
           ELSE /\ originalText' = [originalText EXCEPT ![f] = innerHTML(button[f])]
                /\ button' = [button EXCEPT ![f] =
                        SetInnerHTML(SetDisabled(@, TRUE), LoadingMarkup(LoadingLabel(f)))]
                /\ request' = [request EXCEPT ![f] = [url |-> "/api/contact", body |-> data]]
                /\ pc' = [pc EXCEPT ![f] = "fetch"]
                /\ UNCHANGED <<alerts, alertTimers>>
        /\ UNCHANGED <<fields, response, redirect, location, forms>>

\* the finally block
\* the finally block without the line that enables the button
ContactFinally_KeepsDisabled ==
    button' = [button EXCEPT !["contact"] = SetTextContent(@, originalText["contact"])]

ContactFinally ==
    button' = [button EXCEPT !["contact"] =
                   SetTextContent(SetDisabled(@, FALSE), originalText["contact"])]

\* the form reset whatever the result says
ContactResult_AlwaysResets(result) ==
    LET f == "contact"
    IN  /\ IF Truthy(result.success)
           THEN showAlert(result.message, "success")
           ELSE showAlert(result.message, "error")
        /\ fields' = [fields EXCEPT ![f] = DefaultFields(f)]
        /\ ContactFinally
        /\ UNCHANGED redirect

\* the handler from the parsed result on
ContactResult(result) ==
    LET f == "contact"
    IN  /\ IF Truthy(result.success)
           THEN /\ showAlert(result.message, "success")
                /\ fields' = [fields EXCEPT ![f] = DefaultFields(f)]
           ELSE /\ showAlert(result.message, "error")
                /\ UNCHANGED fields
        /\ ContactFinally
        /\ UNCHANGED redirect

\* the catch block without its alert
ContactCatch_Silent ==
    /\ ContactFinally
    /\ UNCHANGED <<fields, redirect, alerts, alertTimers>>

\* the catch block
ContactCatch ==
    /\ showAlert(NetworkMessage, "error")
    /\ ContactFinally
    /\ UNCHANGED <<fields, redirect>>

(***************************************************************************)
(* handleDonationForm                                                      *)
(***************************************************************************)
DonationData ==
    LET form == fields["donate"]
    IN  [amount |-> form.amount, customAmount |-> form.customAmount,
         donationType |-> form.donationType, paymentMethod |-> form.paymentMethod,
         donorName |-> form.donorName, donorEmail |-> form.donorEmail,
         donorPhone |-> form.donorPhone, projectSelection |-> form.projectSelection,
         donorMessage |-> form.donorMessage,
         anonymous |-> Bool(form.anonymous = One),
         newsletter |-> Bool(form.newsletter = One)]

\* the custom amount taken whenever one is typed
ResolveAmount_PrefersCustom(data) ==
    IF Truthy(data.customAmount) THEN data.customAmount ELSE data.amount

\* data.amount === 'custom' ? data.customAmount : data.amount
ResolveAmount(data) == IF data.amount = Custom THEN data.customAmount ELSE data.amount

\* !donationAmount || donationAmount <= 0
AmountRejected(amount) == ~Truthy(amount) \/ LessOrEqual(amount, Num(0))

\* the handler up to its first await
handleDonationForm ==
    LET f == "donate"
        data == DonationData
        amount == ResolveAmount(data)
    IN  /\ CanSubmit(f)
        /\ IF AmountRejected(amount)
           THEN /\ showAlert(AmountMessage, "error")
                /\ UNCHANGED <<button, pc, originalText, request>>
           ELSE IF ~Truthy(data.paymentMethod)
           THEN /\ showAlert(MethodMessage, "error")
                /\ UNCHANGED <<button, pc, originalText, request>>
           ELSE IF ~Truthy(data.donorName) \/ ~Truthy(data.donorEmail)
           THEN /\ showAlert(NameEmailMessage, "error")
                /\ UNCHANGED <<button, pc, originalText, request>>
           ELSE IF ~isValidEmail(data.donorEmail)
           THEN /\ showAlert(EmailMessage, "error")
                /\ UNCHANGED <<button, pc, originalText, request>>
           ELSE /\ originalText' = [originalText EXCEPT ![f] = innerHTML(button[f])]
                /\ button' = [button EXCEPT ![f] =
                        SetInnerHTML(SetDisabled(@, TRUE), LoadingMarkup(LoadingLabel(f)))]
                /\ request' = [request EXCEPT ![f] = [url |-> "/api/donate", body |-> data]]
                /\ pc' = [pc EXCEPT ![f] = "fetch"]
                /\ UNCHANGED <<alerts, alertTimers>>
        /\ UNCHANGED <<fields, response, redirect, location, forms>>

\* the content restored, the button left disabled
DonationRestore_StaysDisabled ==
    button' = [button EXCEPT !["donate"] = SetInnerHTML(@, originalText["donate"])]

\* submitButton.disabled = false; submitButton.innerHTML = originalText
DonationRestore ==
    button' = [button EXCEPT !["donate"] =
                   SetInnerHTML(SetDisabled(@, FALSE), originalText["donate"])]

\* the handler from the parsed result on
\* the success branch restoring the button as the failure branch does
DonationResult_RestoresOnSuccess(result) ==
    LET f == "donate"
    IN  /\ IF Truthy(result.success)
           THEN /\ showAlert(result.message, "success")
                /\ redirect' = [pending |-> TRUE, url |-> ThankYouUrl(result),
                                early |-> IF AlertDelay > RedirectDelay
                                          THEN Len(alertTimers)
                                          ELSE Len(alertTimers')]
                /\ DonationRestore
           ELSE /\ showAlert(result.message, "error")
                /\ DonationRestore
                /\ UNCHANGED redirect
        /\ UNCHANGED fields

DonationResult(result) ==
    LET f == "donate"
    IN  /\ IF Truthy(result.success)
           THEN /\ showAlert(result.message, "success")
                \* the timers started earlier may fire before the redirect; the
                \* timer of this alert may only if its delay is not the longer one
                /\ redirect' = [pending |-> TRUE, url |-> ThankYouUrl(result),
                                early |-> IF AlertDelay > RedirectDelay
                                          THEN Len(alertTimers)
                                          ELSE Len(alertTimers')]
                /\ UNCHANGED button
           ELSE /\ showAlert(result.message, "error")
                /\ DonationRestore
                /\ UNCHANGED redirect
        /\ UNCHANGED fields

\* the catch block
DonationCatch ==
    /\ showAlert(NetworkMessage, "error")
    /\ DonationRestore
    /\ UNCHANGED <<fields, redirect>>

(***************************************************************************)
(* handleNewsletterForm                                                    *)
(***************************************************************************)
NewsletterData == [email |-> fields["newsletter"].email]

\* handleNewsletterForm with the return after the alert left out
handleNewsletterForm_NoReturn ==
    LET f == "newsletter"
        data == NewsletterData
    IN  /\ CanSubmit(f)
        /\ IF ~Truthy(data.email) \/ ~isValidEmail(data.email)
           THEN showAlert(EmailMessage, "error")
           ELSE UNCHANGED <<alerts, alertTimers>>
        /\ originalText' = [originalText EXCEPT ![f] = innerHTML(button[f])]
        /\ button' = [button EXCEPT ![f] =
                SetInnerHTML(SetDisabled(@, TRUE), LoadingMarkup(LoadingLabel(f)))]
        /\ request' = [request EXCEPT ![f] = [url |-> "/api/newsletter", body |-> data]]
        /\ pc' = [pc EXCEPT ![f] = "fetch"]
        /\ UNCHANGED <<fields, response, redirect, location, forms>>

\* the handler up to its first await
handleNewsletterForm ==
    LET f == "newsletter"
        data == NewsletterData
    IN  /\ CanSubmit(f)
        /\ IF ~Truthy(data.email) \/ ~isValidEmail(data.email)
           THEN /\ showAlert(EmailMessage, "error")
                /\ UNCHANGED <<button, pc, originalText, request>>
           ELSE /\ originalText' = [originalText EXCEPT ![f] = innerHTML(button[f])]
                /\ button' = [button EXCEPT ![f] =
                        SetInnerHTML(SetDisabled(@, TRUE), LoadingMarkup(LoadingLabel(f)))]
                /\ request' = [request EXCEPT ![f] = [url |-> "/api/newsletter", body |-> data]]
                /\ pc' = [pc EXCEPT ![f] = "fetch"]
                /\ UNCHANGED <<alerts, alertTimers>>
        /\ UNCHANGED <<fields, response, redirect, location, forms>>

\* the finally block
NewsletterFinally ==
    button' = [button EXCEPT !["newsletter"] =
                   SetTextContent(SetDisabled(@, FALSE), originalText["newsletter"])]

\* the handler from the parsed result on
NewsletterResult(result) ==
    LET f == "newsletter"
    IN  /\ IF Truthy(result.success)
           THEN /\ showAlert(result.message, "success")
                /\ fields' = [fields EXCEPT ![f] = DefaultFields(f)]
           ELSE /\ showAlert(result.message, "error")
                /\ UNCHANGED fields
        /\ NewsletterFinally
        /\ UNCHANGED redirect

\* the catch block
NewsletterCatch ==
    /\ showAlert(NetworkMessage, "error")
    /\ NewsletterFinally
    /\ UNCHANGED <<fields, redirect>>

(***************************************************************************)
(* The awaits of the three handlers                                        *)
(***************************************************************************)
Result(f, result) ==
    CASE f = "contact" -> ContactResult(result)
      [] f = "donate" -> DonationResult(result)
      [] f = "newsletter" -> NewsletterResult(result)

Catch(f) ==
    CASE f = "contact" -> ContactCatch
      [] f = "donate" -> DonationCatch
      [] f = "newsletter" -> NewsletterCatch

\* await fetch(...) resumes with a Response; response.json() starts
\* the Response object fetch resolves with: its status and its body
Received(r) ==
    IF r.body.kind = "json"
    THEN [kind |-> "json", payload |-> r.body.payload, status |-> r.status]
    ELSE [kind |-> r.body.kind, status |-> r.status]

FetchResolved(f, r) ==
    /\ Loaded
    /\ pc[f] = "fetch"
    /\ request' = [request EXCEPT ![f] = NoRequest]
    /\ response' = [response EXCEPT ![f] = Received(r)]
    /\ pc' = [pc EXCEPT ![f] = "json"]
    /\ UNCHANGED <<fields, button, originalText, alerts, alertTimers,
                   redirect, location, forms>>

\* await fetch(...) throws: the request never completed
FetchRejected(f) ==
    /\ Loaded
    /\ pc[f] = "fetch"
    /\ request' = [request EXCEPT ![f] = NoRequest]
    /\ pc' = [pc EXCEPT ![f] = "idle"]
    /\ Catch(f)
    /\ UNCHANGED <<originalText, response, location, forms>>

\* the success branch taken only for a status of 200
JsonResolved_RequiresOk(f) ==
    /\ Loaded
    /\ pc[f] = "json"
    /\ response[f].kind = "json"
    /\ response' = [response EXCEPT ![f] = NoResponse]
    /\ pc' = [pc EXCEPT ![f] = "idle"]
    /\ Result(f, [response[f].payload EXCEPT
                      !.success = Bool(Truthy(@) /\ response[f].status = 200)])
    /\ UNCHANGED <<originalText, request, location, forms>>

\* await response.json() resumes with the parsed body
JsonResolved(f) ==
    /\ Loaded
    /\ pc[f] = "json"
    /\ response[f].kind = "json"
    /\ response' = [response EXCEPT ![f] = NoResponse]
    /\ pc' = [pc EXCEPT ![f] = "idle"]
    /\ Result(f, response[f].payload)
    /\ UNCHANGED <<originalText, request, location, forms>>

\* await response.json() throws: the body is not JSON
JsonRejected(f) ==
    /\ Loaded
    /\ pc[f] = "json"
    /\ response[f].kind = "unparseable"
    /\ response' = [response EXCEPT ![f] = NoResponse]
    /\ pc' = [pc EXCEPT ![f] = "idle"]
    /\ Catch(f)
    /\ UNCHANGED <<originalText, request, location, forms>>

(***************************************************************************)
(* Timers                                                                  *)
(***************************************************************************)
\* the auto-remove timer of showAlert fires: the alert is removed if it is
\* still in the document.  A timer started with or after the redirect timer
\* is due after it.
AlertTimerFired ==
    /\ Loaded
    /\ alertTimers # <<>>
    /\ (redirect.pending /\ AlertDelay > RedirectDelay) => redirect.early > 0
    /\ alerts' = SelectSeq(alerts, LAMBDA a : a.id # Head(alertTimers))
    /\ alertTimers' = Tail(alertTimers)
    /\ redirect' = IF redirect.pending /\ redirect.early > 0
                   THEN [redirect EXCEPT !.early = @ - 1]
                   ELSE redirect
    /\ UNCHANGED <<fields, button, pc, originalText, request, response,
                   location, forms>>

\* the redirect timer of handleDonationForm fires: the page is left
RedirectFired ==
    /\ Loaded
    /\ redirect.pending
    /\ location' = redirect.url
    /\ redirect' = NoRedirect
    /\ UNCHANGED <<fields, button, pc, originalText, request, response,
                   alerts, alertTimers, forms>>

(***************************************************************************)
(* The specification                                                       *)
(***************************************************************************)
PageInit ==
    /\ forms \in Pages
    /\ fields = [f \in Forms |-> DefaultFields(f)]
    /\ button \in [Forms -> {[disabled |-> FALSE, children |-> c] : c \in ButtonContents}]
    /\ \A f \in Forms : (f \in forms) = (button[f].children # <<>>)
    /\ pc = [f \in Forms |-> "idle"]
    /\ originalText = [f \in Forms |-> <<>>]
    /\ request = [f \in Forms |-> NoRequest]
    /\ response = [f \in Forms |-> NoResponse]
    /\ alerts = <<>>
    /\ alertTimers = <<>>
    /\ redirect = NoRedirect
    /\ location = ThisPage


PageNext ==
    \/ \E f \in Forms : \E d \in FormInputs(f) : Fill(f, d)
    \/ \E i \in 1..Len(alerts) : AlertClose(i)
    \/ handleContactForm
    \/ handleDonationForm
    \/ handleNewsletterForm
    \/ \E f \in Forms : \E r \in Responses(f) : FetchResolved(f, r)
    \/ \E f \in Forms : FetchRejected(f)
    \/ \E f \in Forms : JsonResolved(f)
    \/ \E f \in Forms : JsonRejected(f)
    \/ AlertTimerFired
    \/ RedirectFired

(***************************************************************************)
(* The pure functions on their own: the input is drawn at the start and    *)
(* the function applied to it.                                             *)
(***************************************************************************)
VARIABLES
    email,          \* the argument of isValidEmail
    emailValid,     \* its result, "unset" before the call
    amountFields,   \* the amount and customAmount fields of the donate form
    donationAmount, \* the local of handleDonationForm computed from them
    amountRejected  \* whether the amount check rejects, "unset" before it

pureVars == <<email, emailValid, amountFields, donationAmount, amountRejected>>

(***************************************************************************)
(* The Submission API of the backend, donate endpoint: validate, then      *)
(* persist one Donation row and answer with the amount and the method.     *)
(***************************************************************************)
VARIABLES
    accepted,       \* the payment methods the deployment accepts
    donations,      \* the Donation rows, in the order they were created
    apiRequest,     \* the body of the request handled last
    apiResult,      \* the answer to it
    notification    \* the payload sent last to the Notification Sink

serverVars == <<accepted, donations, apiRequest, apiResult, notification>>

(***************************************************************************)
(* The Submission API of the backend, newsletter endpoint: requests are    *)
(* handled concurrently, each looking the email up and then inserting it   *)
(* into a table whose email column is unique.                              *)
(***************************************************************************)
VARIABLES
    subscriptions,  \* the Newsletter Subscription rows, in the order created
    handlers        \* the request each concurrent handler works on

newsletterVars == <<subscriptions, handlers>>

vars == <<pageVars, pureVars, serverVars, newsletterVars>>

\* the most Donation rows the store is followed to
MaxRows == 2

CryptoOnly == {Str(<<"bitcoin">>), Str(<<"ethereum">>)}
AllMethods == CryptoOnly \cup {Str(<<"mobile-money">>), Str(<<"card">>), Str(<<"bank-transfer">>)}
Deployments == {CryptoOnly, AllMethods}

NoBody == [url |-> "none"]

OtherEmail == Str(<<"b", "@", "a", ".", "a">>)
NoResult == [success |-> Undefined]

\* the bodies a client may post to /api/donate
Donors ==
    {<<Str(<<"A">>), GoodEmail>>, <<Str(<<"B">>), OtherEmail>>,
     <<Empty, GoodEmail>>, <<Str(<<"A">>), NoDotEmail>>}

DonateBody(a, m, d, anon) ==
    [amount |-> a, customAmount |-> Empty, paymentMethod |-> m, donorName |-> d[1],
     donorEmail |-> d[2], anonymous |-> Bool(anon)]

DonateBodies ==
    {DonateBody(Str(<<"1", "0", "0">>), m, d, anon) :
        m \in {Str(<<"bitcoin">>), Str(<<"card">>), Str(<<"visa">>), Null},
        d \in Donors, anon \in BOOLEAN}
    \cup
    {DonateBody(Str(<<"0">>), m, <<Str(<<"A">>), GoodEmail>>, anon) :
        m \in {Str(<<"bitcoin">>), Str(<<"visa">>)}, anon \in BOOLEAN}

\* the format check of the server
ServerValidEmail(v) == v.type = "string" /\ emailRegexTest(v.chars)

\* the method accepted whatever the deployment
MethodAccepted_Any(method) == Truthy(method)

MethodAccepted(method) == method \in accepted

BodyAmount(body) == IF body.amount = Custom THEN body.customAmount ELSE body.amount

\* the validation of a donate request
DonateValid(body) ==
    /\ Truthy(BodyAmount(body)) /\ GreaterThan(BodyAmount(body), Num(0))
    /\ MethodAccepted(body.paymentMethod)
    /\ Truthy(body.donorName)
    /\ ServerValidEmail(body.donorEmail)

DonationRow(body, id) ==
    [amount |-> BodyAmount(body), paymentMethod |-> body.paymentMethod,
     donorName |-> body.donorName, donorEmail |-> body.donorEmail,
     anonymous |-> body.anonymous, transactionId |-> id]

NoNotification == [sent |-> FALSE]

Anonymous == [anonymous |-> Bool(TRUE)]

\* the donor of the payload named whatever the anonymous flag
DonorInformation_Always(row) == [name |-> row.donorName, email |-> row.donorEmail]

\* the donor information of the payload: left out of an anonymous donation
DonorInformation(row) ==
    IF Truthy(row.anonymous) THEN Anonymous
    ELSE [name |-> row.donorName, email |-> row.donorEmail]

\* the message composed for the Notification Sink from the stored row
NotificationPayload(row) ==
    [amount |-> row.amount, paymentMethod |-> row.paymentMethod,
     donor |-> DonorInformation(row), transactionId |-> Num(row.transactionId)]

\* POST /api/donate: a request that fails validation is answered with a
\* failure and nothing is stored; a valid one is stored, notified to the
\* sink (the notification may be lost, which fails nothing) and answered
\* with the amount and the method
ApiDonate(body) ==
    /\ apiRequest' = body
    /\ IF DonateValid(body)
       THEN /\ Len(donations) < MaxRows
            /\ donations' = Append(donations, DonationRow(body, Len(donations) + 1))
            /\ \E delivered \in BOOLEAN :
                    notification' =
                        IF delivered
                        THEN NotificationPayload(DonationRow(body, Len(donations) + 1))
                        ELSE notification
            /\ apiResult' = [success |-> Bool(TRUE), amount |-> BodyAmount(body),
                             paymentMethod |-> body.paymentMethod]
       ELSE /\ donations' = donations
            /\ notification' = notification
            /\ apiResult' = [success |-> Bool(FALSE)]
    /\ UNCHANGED <<accepted, pageVars, pureVars, newsletterVars>>

\* POST /api/donate when the store fails: a generic failure, no row
ApiDonateStoreFails(body) ==
    /\ DonateValid(body)
    /\ apiRequest' = body
    /\ donations' = donations
    /\ apiResult' = [success |-> Bool(FALSE)]
    /\ UNCHANGED <<accepted, notification, pageVars, pureVars, newsletterVars>>

\* the most requests to /api/newsletter handled at the same time
MaxHandlers == 2

\* the most Newsletter Subscription rows the store is followed to
MaxSubscriptions == 3

Handlers == 1..MaxHandlers

\* the emails a client may post to /api/newsletter
SubscribeEmails == {GoodEmail, OtherEmail, NoDotEmail, Null}

HandlerIdle == [pc |-> "idle", email |-> Null, result |-> NoResult]

Answer(ok, why) == [success |-> Bool(ok), error |-> why]

\* the lookup of the handler: is there a row with this email
EmailExists(e) == \E i \in 1..Len(subscriptions) : subscriptions[i].email = e

\* the store without the constraint on the email column
UniqueEmail_Unenforced(table, e) == TRUE

\* the unique constraint of the email column, checked by the store when a
\* row is inserted
UniqueEmail(table, e) == \A i \in 1..Len(table) : table[i].email # e

\* POST /api/newsletter arrives: an invalid email is answered at once
NewsletterReceive(h, e) ==
    /\ handlers[h].pc = "idle"
    /\ handlers' = [handlers EXCEPT ![h] =
            IF ServerValidEmail(e)
            THEN [pc |-> "lookup", email |-> e, result |-> NoResult]
            ELSE [pc |-> "idle", email |-> e, result |-> Answer(FALSE, "validation")]]
    /\ UNCHANGED <<subscriptions, pageVars, pureVars, serverVars>>

\* the handler looks the email up: an email that exists is answered without
\* a new row, as a success or flagged as already subscribed
NewsletterLookup(h) ==
    /\ handlers[h].pc = "lookup"
    /\ IF EmailExists(handlers[h].email)
       THEN \E ok \in BOOLEAN :
                handlers' = [handlers EXCEPT ![h].pc = "idle",
                                             ![h].result = Answer(ok, "exists")]
       ELSE handlers' = [handlers EXCEPT ![h].pc = "insert"]
    /\ UNCHANGED <<subscriptions, pageVars, pureVars, serverVars>>

\* the handler inserts the row: a violated constraint is caught and answered
\* with the generic failure
NewsletterInsert(h) ==
    /\ handlers[h].pc = "insert"
    /\ IF UniqueEmail(subscriptions, handlers[h].email)
       THEN /\ Len(subscriptions) < MaxSubscriptions
            /\ subscriptions' = Append(subscriptions,
                                       [email |-> handlers[h].email, status |-> "active"])
            /\ handlers' = [handlers EXCEPT ![h].pc = "idle",
                                            ![h].result = Answer(TRUE, "none")]
       ELSE /\ subscriptions' = subscriptions
            /\ handlers' = [handlers EXCEPT ![h].pc = "idle",
                                            ![h].result = Answer(FALSE, "store")]
    /\ UNCHANGED <<pageVars, pureVars, serverVars>>

NewsletterIdle ==
    /\ subscriptions = <<>>
    /\ handlers = [h \in Handlers |-> HandlerIdle]

ServerIdle ==
    /\ accepted = CryptoOnly
    /\ donations = <<>>
    /\ apiRequest = NoBody
    /\ apiResult = NoResult
    /\ notification = NoNotification

\* the longest string isValidEmail is tried on
MaxEmailLen == 6

EmailAlphabet == {"a", "@", ".", " ", "\n"}

RECURSIVE StringsUpTo(_, _)
StringsUpTo(alphabet, n) ==
    IF n = 0 THEN {<<>>}
    ELSE LET shorter == StringsUpTo(alphabet, n - 1)
         IN  shorter \cup {Append(s, c) : s \in {x \in shorter : Len(x) = n - 1}, c \in alphabet}

\* the longest amount string the amount check is tried on
MaxAmountLen == 2

AmountAlphabet == {"0", "5", "-", "a", " "}

AmountStrings == {Str(s) : s \in StringsUpTo(AmountAlphabet, MaxAmountLen)}

PureIdle ==
    /\ email = <<>>
    /\ emailValid = "unset"
    /\ amountFields = [amount |-> Null, customAmount |-> Null]
    /\ donationAmount = Undefined
    /\ amountRejected = "unset"

PageIdle ==
    /\ forms = {}
    /\ fields = [f \in Forms |-> DefaultFields(f)]
    /\ button = [f \in Forms |-> [disabled |-> FALSE, children |-> <<>>]]
    /\ pc = [f \in Forms |-> "idle"]
    /\ originalText = [f \in Forms |-> <<>>]
    /\ request = [f \in Forms |-> NoRequest]
    /\ response = [f \in Forms |-> NoResponse]
    /\ alerts = <<>>
    /\ alertTimers = <<>>
    /\ redirect = NoRedirect
    /\ location = ThisPage

Init == PageInit /\ PureIdle /\ ServerIdle /\ NewsletterIdle

Next == PageNext /\ UNCHANGED <<pureVars, serverVars, newsletterVars>>

Spec == Init /\ [][Next]_vars

\* the promise a handler of the form awaits settles: fetch resolves or
\* rejects, response.json() resolves or rejects
Settle(f) ==
    /\ \/ \E r \in Responses(f) : FetchResolved(f, r)
       \/ FetchRejected(f)
       \/ JsonResolved(f)
       \/ JsonRejected(f)
    /\ UNCHANGED <<pureVars, serverVars, newsletterVars>>

\* a timer that is due fires
TimerFires ==
    /\ AlertTimerFired \/ RedirectFired
    /\ UNCHANGED <<pureVars, serverVars, newsletterVars>>

\* the page when every issued request settles and every timer fires, from
\* buttons of plain text and with each form left empty or filled in well
FairInit ==
    /\ Init
    /\ \A f \in forms : button[f].children = <<Text(<<"Send">>)>>

FairInputs(f) ==
    {DefaultFields(f),
     CASE f = "contact" -> ContactFilled
       [] f = "donate" -> DonateFilled
       [] OTHER -> [email |-> GoodEmail]}

FairNext ==
    /\ \/ \E f \in Forms : \E d \in FairInputs(f) : Fill(f, d)
       \/ \E i \in 1..Len(alerts) : AlertClose(i)
       \/ handleContactForm
       \/ handleDonationForm
       \/ handleNewsletterForm
       \/ \E f \in Forms : \E r \in Responses(f) : FetchResolved(f, r)
       \/ \E f \in Forms : FetchRejected(f)
       \/ \E f \in Forms : JsonResolved(f)
       \/ \E f \in Forms : JsonRejected(f)
       \/ AlertTimerFired
       \/ RedirectFired
    /\ UNCHANGED <<pureVars, serverVars, newsletterVars>>

FairSpec ==
    /\ FairInit
    /\ [][FairNext]_vars
    /\ \A f \in Forms : WF_vars(Settle(f))
    /\ WF_vars(TimerFires)

\* isValidEmail on every string of up to MaxEmailLen characters
EmailInit ==
    /\ PageIdle
    /\ ServerIdle
    /\ NewsletterIdle
    /\ email \in StringsUpTo(EmailAlphabet, MaxEmailLen)
    /\ emailValid = "unset"
    /\ amountFields = [amount |-> Null, customAmount |-> Null]
    /\ donationAmount = Undefined
    /\ amountRejected = "unset"

CallIsValidEmail ==
    /\ emailValid = "unset"
    /\ emailValid' = IF isValidEmail(Str(email)) THEN "valid" ELSE "invalid"
    /\ UNCHANGED <<pageVars, serverVars, newsletterVars, email, amountFields, donationAmount, amountRejected>>

EmailNext == CallIsValidEmail

SpecEmail == EmailInit /\ [][EmailNext]_vars

\* the amount resolution and check of handleDonationForm on every pair of
\* an amount (a preset, the sentinel, nothing chosen) and a custom amount
AmountInit ==
    /\ PageIdle
    /\ ServerIdle
    /\ NewsletterIdle
    /\ email = <<>>
    /\ emailValid = "unset"
    /\ amountFields \in [amount : AmountStrings \cup {Null, Custom},
                          customAmount : AmountStrings \cup {Null}]
    /\ donationAmount = Undefined
    /\ amountRejected = "unset"

ResolveDonationAmount ==
    /\ amountRejected = "unset"
    /\ donationAmount' = ResolveAmount(amountFields)
    /\ amountRejected' = IF AmountRejected(ResolveAmount(amountFields)) THEN "rejected" ELSE "passed"
    /\ UNCHANGED <<pageVars, serverVars, newsletterVars, email, emailValid, amountFields>>

AmountNext == ResolveDonationAmount

SpecAmount == AmountInit /\ [][AmountNext]_vars

\* the backend on its own, under either deployment
ServerInit ==
    /\ PageIdle
    /\ PureIdle
    /\ NewsletterIdle
    /\ accepted \in Deployments
    /\ donations = <<>>
    /\ apiRequest = NoBody
    /\ apiResult = NoResult
    /\ notification = NoNotification

ServerNext ==
    \/ \E body \in DonateBodies : ApiDonate(body)
    \/ \E body \in DonateBodies : ApiDonateStoreFails(body)

SpecServer == ServerInit /\ [][ServerNext]_vars

\* the newsletter endpoint on its own, with MaxHandlers concurrent requests
NewsletterServerInit ==
    /\ PageIdle
    /\ PureIdle
    /\ ServerIdle
    /\ NewsletterIdle

NewsletterServerNext ==
    \/ \E h \in Handlers, e \in SubscribeEmails : NewsletterReceive(h, e)
    \/ \E h \in Handlers : NewsletterLookup(h)
    \/ \E h \in Handlers : NewsletterInsert(h)

SpecNewsletter == NewsletterServerInit /\ [][NewsletterServerNext]_vars

(***************************************************************************)
(* Properties                                                              *)
(***************************************************************************)
\* a field left empty: no value, or the empty string
Blank(v) == v = Null \/ v = Str(<<>>)

\* the amount the donate form stands for
ChosenAmount(form) == IF form.amount = Custom THEN form.customAmount ELSE form.amount

ContactInvalid ==
    LET form == fields["contact"]
    IN  Blank(form.name) \/ Blank(form.email) \/ Blank(form.message) \/ ~isValidEmail(form.email)

DonateInvalid ==
    LET form == fields["donate"]
    IN  \/ Blank(ChosenAmount(form)) \/ Blank(form.paymentMethod)
        \/ Blank(form.donorName) \/ Blank(form.donorEmail)
        \/ ~isValidEmail(form.donorEmail)

NewsletterInvalid ==
    LET form == fields["newsletter"]
    IN  Blank(form.email) \/ ~isValidEmail(form.email)

\* this step put exactly one alert on the page: a new element of the given
\* type, alone in the document, with its timer the only one started
OneAlertShown(type) ==
    /\ Len(alerts') = 1
    /\ alerts'[1].type = type
    /\ alerts'[1].id \notin AlertIds \cup TimerIds
    /\ alertTimers' = Append(alertTimers, alerts'[1].id)

Aborted == OneAlertShown("error") /\ request' = request /\ button' = button /\ pc' = pc

\* C1: a submit handler that finds a required field empty or the email
\* invalid shows exactly one error alert, sends no request and leaves the
\* submit button (disabled flag and content) as it was.
C1_InvalidInputAborts ==
    [][/\ (handleContactForm /\ ContactInvalid) => Aborted
       /\ (handleDonationForm /\ DonateInvalid) => Aborted
       /\ (handleNewsletterForm /\ NewsletterInvalid) => Aborted]_vars

\* a rejected donation: the name is missing, the alert says so, nothing was sent
C1_Witness ==
    /\ alerts # <<>>
    /\ alerts[1].message = NameEmailMessage.chars
    /\ alerts[1].type = "error"
    /\ Blank(fields["donate"].donorName)
    /\ request["donate"] = NoRequest
    /\ ~button["donate"].disabled

\* a number greater than zero, as a reader of the amount understands it
Positive(v) == GreaterThan(v, Num(0))

\* C2: a request to /api/donate is issued only when the amount the form
\* stands for is non-empty and greater than zero.
C2_RequestOnlyForPositiveAmount ==
    request["donate"] # NoRequest =>
        LET amount == ChosenAmount(request["donate"].body)
        IN  ~Blank(amount) /\ Positive(amount)

\* the button shows the spinner and the form's loading label
LoadingShown(f) ==
    button[f].children =
        <<Elem("span", " class=\"loading-spinner\"", <<>>), Text(<<LoadingLabel(f)>>)>>

\* C5: while a request of a form is in flight, and until its response is
\* handled, the form's submit button is disabled and shows the loading
\* indicator.
C5_DisabledWhileInFlight ==
    \A f \in Forms :
        (request[f] # NoRequest \/ pc[f] # "idle") => (button[f].disabled /\ LoadingShown(f))

\* the donate and the newsletter form both wait for their requests
C5_Witness ==
    /\ request["donate"] # NoRequest
    /\ request["newsletter"] # NoRequest
    /\ button["donate"].disabled
    /\ button["newsletter"].disabled

\* the handler of f is about to take the branch of a parsed result
ResultHandled(f) == pc[f] = "json" /\ response[f].kind = "json" /\ pc'[f] = "idle"

SignalsSuccess(f) == response[f].payload.success = Bool(TRUE)

\* C6: a result that signals failure gets an error alert with the server's
\* message and the submit button enabled again; the fields keep their
\* values and no redirect is scheduled.
C6_FailurePayload ==
    [][\A f \in Forms :
         (ResultHandled(f) /\ ~SignalsSuccess(f)) =>
             /\ OneAlertShown("error")
             /\ alerts'[1].message = response[f].payload.message.chars
             /\ ~button'[f].disabled
             /\ fields' = fields
             /\ redirect' = redirect
             /\ location' = location]_vars

\* the donate form after a failure: the server's message shown, the button
\* enabled, the fields as typed
C6_Witness ==
    /\ alerts # <<>>
    /\ alerts[1].message = FailureMessage("donate").chars
    /\ alerts[1].type = "error"
    /\ pc["donate"] = "idle"
    /\ ~button["donate"].disabled
    /\ fields["donate"] = DonateFilled
    /\ ~redirect.pending

\* C7: a request that never completes gets the connectivity error alert and
\* the submit button enabled again; the fields keep their values and no
\* redirect is scheduled.
C7_RequestRejected ==
    [][\A f \in Forms :
         (pc[f] = "fetch" /\ pc'[f] = "idle") =>
             /\ OneAlertShown("error")
             /\ alerts'[1].message = NetworkMessage.chars
             /\ ~button'[f].disabled
             /\ fields' = fields
             /\ redirect' = redirect
             /\ location' = location]_vars

\* the contact form, the only one submitted, after its request failed
C7_Witness ==
    /\ alerts # <<>>
    /\ alerts[1].message = NetworkMessage.chars
    /\ originalText["contact"] # <<>>
    /\ originalText["newsletter"] = <<>>
    /\ pc["contact"] = "idle"
    /\ request["contact"] = NoRequest
    /\ ~button["contact"].disabled
    /\ fields["contact"] = ContactFilled

\* C8: handleContactForm and handleNewsletterForm reset the form exactly
\* when the result signals success (with a success alert carrying the
\* server's message); no other step of a handler changes the fields.
C8_ResetIffSuccess ==
    [][\A f \in {"contact", "newsletter"} :
         /\ (ResultHandled(f) /\ SignalsSuccess(f)) =>
                /\ OneAlertShown("success")
                /\ alerts'[1].message = response[f].payload.message.chars
                /\ fields'[f] = DefaultFields(f)
         /\ (fields'[f] # fields[f]) =>
                \/ ResultHandled(f) /\ SignalsSuccess(f)
                \/ \E d \in FormInputs(f) : Fill(f, d)]_vars

\* the contact form after a success: reset, the server's message shown
C8_Witness ==
    /\ alerts # <<>>
    /\ alerts[1].message = SuccessMessage("contact").chars
    /\ alerts[1].type = "success"
    /\ fields["contact"] = DefaultFields("contact")
    /\ pc["contact"] = "idle"

\* the query string of a URL, split at "&" into name=value pairs
RECURSIVE SplitAt(_, _)
SplitAt(s, sep) ==
    IF \A i \in 1..Len(s) : s[i] # sep THEN <<s>>
    ELSE LET k == CHOOSE i \in 1..Len(s) : s[i] = sep /\ \A j \in 1..(i - 1) : s[j] # sep
         IN  <<SubSeq(s, 1, k - 1)>> \o SplitAt(SubSeq(s, k + 1, Len(s)), sep)

UrlPath(url) == Head(SplitAt(url, "?"))

QueryPairs(url) ==
    LET parts == SplitAt(url, "?")
    IN  IF Len(parts) < 2 THEN <<>> ELSE SplitAt(SubSeq(url, Len(parts[1]) + 2, Len(url)), "&")

\* the value of the first parameter of that name, <<"(none)">> when there is none
QueryParam(url, name) ==
    LET pairs == QueryPairs(url)
        hits == {i \in 1..Len(pairs) : Len(pairs[i]) >= 2 /\ pairs[i][1] = name /\ pairs[i][2] = "="}
    IN  IF hits = {} THEN <<"(none)">>
        ELSE LET i == CHOOSE h \in hits : \A g \in hits : h <= g
             IN  SubSeq(pairs[i], 3, Len(pairs[i]))

DonateSuccess == ResultHandled("donate") /\ SignalsSuccess("donate")

\* this step started a redirect timer
RedirectScheduled == redirect'.pending /\ (~redirect.pending \/ redirect'.url # redirect.url)

\* C9: handleDonationForm schedules a redirect exactly when the result signals
\* success, one per success and none while one is pending, after the success
\* alert; the page is left only when that timer fires, for the thank-you page
\* with the amount and the payment method of the response in the query.
C9_RedirectIffSuccess ==
    [][/\ RedirectScheduled => DonateSuccess
       /\ DonateSuccess =>
              /\ ~redirect.pending
              /\ redirect'.pending
              /\ OneAlertShown("success")
              /\ location' = location
              /\ UrlPath(redirect'.url) = <<"thank-you.html">>
              /\ QueryParam(redirect'.url, "amount") = response["donate"].payload.amount.chars
              /\ QueryParam(redirect'.url, "method") = response["donate"].payload.paymentMethod.chars
       /\ (location' # location) =>
              /\ redirect.pending
              /\ location' = redirect.url
              /\ ~redirect'.pending]_vars

\* the page left for the thank-you page of a donation of 25 in ethereum
C9_Witness ==
    /\ UrlPath(location) = <<"thank-you.html">>
    /\ QueryParam(location, "amount") = <<"2", "5">>
    /\ QueryParam(location, "method") = <<"ethereum">>

\* C3: the resolved amount is customAmount when amount is exactly "custom",
\* and amount otherwise, whatever customAmount holds.
C3_AmountResolution ==
    amountRejected # "unset" =>
        /\ (amountFields.amount = Custom) => (donationAmount = amountFields.customAmount)
        /\ (amountFields.amount # Custom) => (donationAmount = amountFields.amount)

\* a preset amount chosen while the custom field holds another number
C3_Witness ==
    /\ amountRejected = "passed"
    /\ amountFields.amount = Str(<<"5", "0">>)
    /\ amountFields.customAmount = Str(<<"5">>)
    /\ donationAmount = Str(<<"5", "0">>)

\* exactly one "@" with something before it, after it a dot with at least one
\* character on each side, and no white space anywhere
DescribedAsValid(s) ==
    LET ats == {i \in 1..Len(s) : s[i] = "@"}
    IN  /\ Cardinality(ats) = 1
        /\ \A i \in 1..Len(s) : s[i] \notin WhiteSpace
        /\ LET at == CHOOSE i \in ats : TRUE
           IN  /\ at > 1
               /\ \E dot \in (at + 1)..Len(s) :
                      s[dot] = "." /\ dot - 1 > at /\ dot + 1 <= Len(s)

\* C4: isValidEmail returns true exactly for the strings so described.
C4_EmailPattern ==
    emailValid # "unset" => ((emailValid = "valid") <=> DescribedAsValid(email))

\* an address whose local part holds a dot and whose domain is "a.a"
C4_Witness ==
    /\ emailValid = "valid"
    /\ email = <<"a", ".", "@", "a", ".", "a">>

\* C10: a donate request whose payment method is not in the deployment's
\* accepted set is answered with a failure and creates no Donation row,
\* whatever its other fields and whatever was requested before; no row ever
\* holds such a method.
C10_UnacceptedMethodRejected ==
    [][/\ \A i \in 1..Len(donations') : donations'[i].paymentMethod \in accepted'
       /\ (apiRequest' \in DonateBodies /\ apiRequest'.paymentMethod \notin accepted) =>
              (apiResult'.success = Bool(FALSE) /\ donations' = donations)]_vars

\* an anonymous donation by visa refused by the crypto-only deployment after
\* an earlier donation was stored
C10_Witness ==
    /\ accepted = CryptoOnly
    /\ Len(donations) = 1
    /\ apiRequest # NoBody
    /\ apiRequest.paymentMethod = Str(<<"visa">>)
    /\ apiRequest.anonymous = Bool(TRUE)
    /\ DonateValid([apiRequest EXCEPT !.paymentMethod = Str(<<"bitcoin">>)])
    /\ apiResult.success = Bool(FALSE)

\* C11: after any sequence of subscription requests, two of them for the
\* same email handled concurrently included, no two rows of the newsletter
\* table hold the same email.
C11_NoDuplicateSubscription ==
    \A i, j \in 1..Len(subscriptions) :
        (subscriptions[i].email = subscriptions[j].email) => (i = j)

\* two requests for one email both passed the lookup; one row was stored and
\* the other insert was refused by the store
C11_Witness ==
    \E h, g \in Handlers :
        /\ h # g
        /\ handlers[h].email = handlers[g].email
        /\ handlers[h].result = Answer(TRUE, "none")
        /\ handlers[g].result = Answer(FALSE, "store")
        /\ Len(subscriptions) = 1
        /\ subscriptions[1].email = handlers[h].email

\* the values a notification payload holds, those of its donor part included
PayloadValues(p) ==
    {p[k] : k \in DOMAIN p} \cup {p.donor[k] : k \in DOMAIN p.donor}

\* the notification of this step was composed for the request of this step
NotificationSent == notification' # notification

\* the requests that differ from this one in donor name and email at most
SameButDonor(body) ==
    {b \in DonateBodies :
        [b EXCEPT !.donorName = body.donorName, !.donorEmail = body.donorEmail] = body}

\* C12: the notification payload of a donation submitted with anonymous set
\* holds neither the donor's name nor the donor's email, and it is the payload
\* every valid request that differs in donor name and email only would have
\* produced in its place.
C12_AnonymousNotification ==
    [][(NotificationSent /\ Truthy(apiRequest'.anonymous)) =>
          /\ apiRequest'.donorName \notin PayloadValues(notification')
          /\ apiRequest'.donorEmail \notin PayloadValues(notification')
          /\ \A b \in SameButDonor(apiRequest') :
                DonateValid(b) =>
                    notification' = NotificationPayload(DonationRow(b, Len(donations')))]_vars

\* the sink holds the payload of an anonymous donation by B that followed a
\* named donation by A
C12_Witness ==
    /\ Len(donations) = 2
    /\ ~Truthy(donations[1].anonymous)
    /\ Truthy(donations[2].anonymous)
    /\ donations[2].donorName = Str(<<"B">>)
    /\ donations[2].donorEmail = OtherEmail
    /\ notification = NotificationPayload(donations[2])
    /\ apiRequest.donorName = Str(<<"B">>)

\* C13: when every issued request settles, a submission of the contact or
\* the newsletter form that passed validation (its button is disabled) leads
\* to the button enabled again, unless the page is left first.
C13_EventuallyEnabled ==
    \A f \in {"contact", "newsletter"} :
        button[f].disabled ~> (~button[f].disabled \/ ~Loaded)

\* the contact form enabled again after a body that was not JSON, its
\* newsletter form still waiting
C13_Witness ==
    /\ Loaded
    /\ ~button["contact"].disabled
    /\ originalText["contact"] # <<>>
    /\ alerts # <<>> /\ alerts[1].message = NetworkMessage.chars
    /\ button["newsletter"].disabled

\* C14: when a submission of the contact or the newsletter form has settled,
\* on any path, the markup of the submit button equals the markup saved when
\* the submission started, whatever the button held, nested markup included.
C14_ButtonContentRestored ==
    [][\A f \in {"contact", "newsletter"} :
          (pc[f] # "idle" /\ pc'[f] = "idle") =>
              innerHTML(button'[f]) = originalText[f]]_vars

\* no request of the form is outstanding and none of its handlers waits
NoneOutstanding(f) == request[f] = NoRequest /\ pc[f] = "idle"

\* this step is a submit that passed validation: it shows no alert and
\* issues the request
handleContactForm_Issues == handleContactForm /\ alerts' = alerts
handleDonationForm_Issues == handleDonationForm /\ alerts' = alerts
handleNewsletterForm_Issues == handleNewsletterForm /\ alerts' = alerts

\* C15: with submit events reaching a form through its enabled button only,
\* a form issues a request only when none of its requests is outstanding, so
\* no interleaving of submits and response or rejection callbacks has two
\* requests of one form in flight.
C15_OneRequestPerForm ==
    [][/\ handleContactForm_Issues => NoneOutstanding("contact")
       /\ handleDonationForm_Issues => NoneOutstanding("donate")
       /\ handleNewsletterForm_Issues => NoneOutstanding("newsletter")]_vars

\* the contact form holds values that pass validation while its handler
\* waits for the body of the response and the newsletter request is in flight
C15_Witness ==
    /\ pc["contact"] = "json"
    /\ pc["newsletter"] = "fetch"
    /\ request["newsletter"] # NoRequest
    /\ ~ContactInvalid
    /\ button["contact"].disabled

\* a success payload was handled by handleDonationForm on this page load:
\* its redirect is pending or has left the page
DonationSucceeded == redirect.pending \/ ~Loaded

\* C16: once handleDonationForm has handled a success payload the donate
\* button is never enabled again: it stays disabled with the loading
\* indicator through the redirect, and no further donate request is issued
\* on this page load.
C16_DisabledAfterSuccess ==
    [][/\ DonateSuccess =>
              (button'["donate"].disabled /\ LoadingShown("donate")')
       /\ DonationSucceeded =>
              /\ button["donate"].disabled
              /\ button'["donate"] = button["donate"]
              /\ request'["donate"] = NoRequest
              /\ pc'["donate"] = "idle"
              /\ ~DonateSuccess]_vars

\* the redirect is pending, the success alert is gone, the donate form holds
\* values that would pass validation again and the newsletter form waits
C16_Witness ==
    /\ redirect.pending
    /\ Loaded
    /\ ~DonateInvalid
    /\ alerts = <<>>
    /\ button["donate"].disabled
    /\ button["newsletter"].disabled

\* the handler resumed from response.json() with an exception
BodyUnparseable(f) == pc[f] = "json" /\ response[f].kind = "unparseable" /\ pc'[f] = "idle"

\* C17: the branch a handler takes on a parsed payload follows the payload's
\* success flag whatever the status of the response, and a response whose
\* body is not JSON is handled as a request that never completed: the
\* connectivity alert, the button enabled, no reset, no redirect.
C17_PayloadDecides ==
    [][\A f \in Forms :
          /\ ResultHandled(f) =>
                 /\ Len(alerts') = 1
                 /\ alerts'[1].type =
                        IF Truthy(response[f].payload.success) THEN "success" ELSE "error"
                 /\ alerts'[1].message = response[f].payload.message.chars
          /\ BodyUnparseable(f) =>
                 /\ OneAlertShown("error")
                 /\ alerts'[1].message = NetworkMessage.chars
                 /\ ~button'[f].disabled
                 /\ fields' = fields
                 /\ redirect' = redirect
                 /\ location' = location]_vars

\* the newsletter handler is about to read a success payload that came with
\* status 500; the contact form shows the connectivity alert and its request
\* is over
C17_Witness ==
    /\ pc["newsletter"] = "json"
    /\ response["newsletter"].kind = "json"
    /\ response["newsletter"].status = 500
    /\ Truthy(response["newsletter"].payload.success)
    /\ pc["contact"] = "idle"
    /\ originalText["contact"] # <<>>
    /\ ~button["contact"].disabled
    /\ alerts # <<>> /\ alerts[1].message = NetworkMessage.chars

\* the elements an alert may be: one per pending timer
ElementIds == 0..(MaxTimers - 1)

\* this step is the auto-remove timer of the oldest pending alert firing
TimerOfAlertFired == alertTimers # <<>> /\ alertTimers' = Tail(alertTimers)

\* C18: after any showAlert calls, close clicks and timer firings the document
\* holds at most one alert; a timer that fires removes no alert but its own;
\* and every alert is removed in the end, by its timer, its close button or
\* the next showAlert, unless the page is left first.
C18_OneAlert ==
    /\ [][/\ Len(alerts') <= 1
          /\ AlertIds' \subseteq ElementIds
          /\ TimerOfAlertFired =>
                 \A i \in 1..Len(alerts) :
                     (alerts[i].id # Head(alertTimers)) =>
                         (\E j \in 1..Len(alerts') : alerts'[j] = alerts[i])]_vars
    /\ \A id \in ElementIds : (id \in AlertIds) ~> (id \notin AlertIds \/ ~Loaded)

\* the timer of an earlier alert has fired and the later alert is still shown
C18_Witness ==
    /\ Len(alerts) = 1
    /\ alerts[1].id = 1
    /\ alertTimers = <<1>>

====
